---- MODULE Spec2Model ----
(***************************************************************************)
(* Model of internal/core/scanner.go (junebako/missio): the directory      *)
(* walk of Scanner.Scan, the classification of Scanner.isSecretFile and    *)
(* the sub-path glob matching of matchPathPattern.                         *)
(*                                                                         *)
(* A Go string is a sequence of byte values; a string literal is written   *)
(* as a tuple of one-character strings and converted by Str.               *)
(***************************************************************************)
EXTENDS Naturals, Integers, Sequences, FiniteSets, TLC

VARIABLES
    \* ---- Scanner.Scan --------------------------------------------------
    rootDir,    \* s.rootDir, the path given to filepath.Walk
    fs,         \* the tree at rootDir: entry (names below the root) -> "dir" / "file"
    config,     \* s.config: the six pattern lists
    pc,         \* position of Scan: "start", "walk", "walked", "done"
    pending,    \* entries filepath.Walk has still to hand to the visitor, in order
    files,      \* the local slice `files` of Scan
    walkErr,    \* the error filepath.Walk returns ("nil" or "err")
    logged,     \* the calls made on s.logger, in order
    calls,      \* the invocations of the visitor, in order: entry and err argument
    retFiles,   \* first return value of Scan
    retErr,     \* second return value of Scan
    \* ---- isSecretFile applied to one path ------------------------------
    relPath,    \* the argument of isSecretFile
    secret,     \* its result
    clsPc,      \* "call" or "done"
    \* ---- matchPathPattern, one loop iteration per step ------------------
    mpPattern,  \* argument pattern
    mpPath0,    \* argument path as passed
    mpPath,     \* the loop variable path
    mpIter,     \* number of filepath.Match attempts made
    mpResult,   \* the value returned
    mpPc        \* "loop" or "done"

scanVars == <<rootDir, fs, config, pc, pending, files, walkErr, logged, calls,
              retFiles, retErr>>
clsVars == <<relPath, secret, clsPc>>
mpVars == <<mpPattern, mpPath0, mpPath, mpIter, mpResult, mpPc>>
vars == <<scanVars, clsVars, mpVars>>

(***************************************************************************)
(* Bounds of the model.                                                    *)
(***************************************************************************)
\* most path segments of a path handed to matchPathPattern
MaxSegs == 4
\* most patterns in the six lists of a rule set, all lists together
MaxRules == 3
\* most entries of a scanned tree below the root
MaxNodes == 4
\* deepest entry of a scanned tree below the root
MaxDepth == 3

(***************************************************************************)
(* Strings as byte sequences.                                              *)
(***************************************************************************)
LowerLetters == <<"a","b","c","d","e","f","g","h","i","j","k","l","m",
                  "n","o","p","q","r","s","t","u","v","w","x","y","z">>
UpperLetters == <<"A","B","C","D","E","F","G","H","I","J","K","L","M",
                  "N","O","P","Q","R","S","T","U","V","W","X","Y","Z">>

\* the byte value of a character
Ord(c) ==
    IF \E i \in 1..26 : LowerLetters[i] = c
    THEN 96 + (CHOOSE i \in 1..26 : LowerLetters[i] = c)
    ELSE IF \E i \in 1..26 : UpperLetters[i] = c
    THEN 64 + (CHOOSE i \in 1..26 : UpperLetters[i] = c)
    ELSE CASE c = "*" -> 42
           [] c = "." -> 46
           [] c = "/" -> 47
           [] c = "?" -> 63
           [] c = "_" -> 95

Str(t) == [i \in 1..Len(t) |-> Ord(t[i])]

\* filepath.Separator
Separator == Ord("/")
Star == Ord("*")
Question == Ord("?")
Dot == Ord(".")

\* strings.ToLower on ASCII
LowerByte(b) == IF b >= 65 /\ b <= 90 THEN b + 32 ELSE b
ToLower(s) == [i \in 1..Len(s) |-> LowerByte(s[i])]

\* strings.Contains(s, substr)
Contains(s, substr) ==
    \E i \in 0..(Len(s) - Len(substr)) :
        \A j \in 1..Len(substr) : s[i + j] = substr[j]

\* strings.EqualFold(s, t) on ASCII
EqualFold(s, t) ==
    /\ Len(s) = Len(t)
    /\ \A i \in 1..Len(s) : LowerByte(s[i]) = LowerByte(t[i])

\* strings.IndexByte(s, c): 0-based index of the first c, -1 if none
IndexByte(s, c) ==
    IF \E i \in 1..Len(s) : s[i] = c
    THEN (CHOOSE i \in 1..Len(s) : s[i] = c /\ \A j \in 1..(i-1) : s[j] # c) - 1
    ELSE -1

\* 1-based position of the last separator of a path, 0 if none
LastSep(path) ==
    IF \E i \in 1..Len(path) : path[i] = Separator
    THEN CHOOSE i \in 1..Len(path) :
            path[i] = Separator /\ \A j \in (i+1)..Len(path) : path[j] # Separator
    ELSE 0

\* filepath.Base for a non-empty path without trailing separator
Base(path) == SubSeq(path, LastSep(path) + 1, Len(path))

\* filepath.Ext: the suffix starting at the last dot of the last element
Ext(path) ==
    LET b == LastSep(path) IN
    IF \E i \in (b+1)..Len(path) : path[i] = Dot
    THEN LET d == CHOOSE i \in (b+1)..Len(path) :
                    path[i] = Dot /\ \A j \in (i+1)..Len(path) : path[j] # Dot
         IN SubSeq(path, d, Len(path))
    ELSE <<>>

\* filepath.Join of two non-empty clean paths
Join(dir, name) == dir \o <<Separator>> \o name

\* Join(dir, n1, n2, ...) for a tuple of names
RECURSIVE JoinAll(_, _)
JoinAll(dir, names) ==
    IF names = <<>> THEN dir
    ELSE JoinAll(Join(dir, Head(names)), Tail(names))

\* filepath.Rel(base, target) for a target at or below base
Rel(base, target) ==
    IF target = base THEN <<Dot>>
    ELSE SubSeq(target, Len(base) + 2, Len(target))

\* byte-wise s < t, the order of sort.Strings
RECURSIVE StrLess(_, _)
StrLess(s, t) ==
    IF t = <<>> THEN FALSE
    ELSE IF s = <<>> THEN TRUE
    ELSE IF Head(s) # Head(t) THEN Head(s) < Head(t)
    ELSE StrLess(Tail(s), Tail(t))

(***************************************************************************)
(* filepath.Match for patterns made of literals, '*' and '?': the whole    *)
(* name must match; '*' matches any run of non-separator bytes, '?' one    *)
(* non-separator byte.                                                     *)
(***************************************************************************)
RECURSIVE Match(_, _)
Match(pattern, name) ==
    IF pattern = <<>> THEN name = <<>>
    ELSE IF Head(pattern) = Star
    THEN \/ Match(Tail(pattern), name)
         \/ /\ name # <<>>
            /\ Head(name) # Separator
            /\ Match(pattern, Tail(name))
    ELSE IF Head(pattern) = Question
    THEN /\ name # <<>>
         /\ Head(name) # Separator
         /\ Match(Tail(pattern), Tail(name))
    ELSE /\ name # <<>>
         /\ Head(name) = Head(pattern)
         /\ Match(Tail(pattern), Tail(name))

(***************************************************************************)
(* matchPathPattern (scanner.go 146-158).                                  *)
(***************************************************************************)
\* faulty variant of NextSubPath: cuts at the last separator instead of the first
NextSubPathLast(path) == SubSeq(path, LastSep(path) + 1, Len(path))

\* path[i+1:] for i the index of the first separator (lines 152, 156)
NextSubPath(path) == SubSeq(path, IndexByte(path, Separator) + 2, Len(path))

RECURSIVE matchPathPattern(_, _)
matchPathPattern(pattern, path) ==
    IF Match(pattern, path) THEN TRUE
    ELSE IF IndexByte(path, Separator) < 0 THEN FALSE
    ELSE matchPathPattern(pattern, NextSubPath(path))

(***************************************************************************)
(* Scanner.isSecretFile (scanner.go 97-142).  A rule set is a record of    *)
(* the six pattern lists of s.config.                                      *)
(***************************************************************************)
\* the test of the two name loops (lines 105, 124)
NameHit(lowerFilename, pattern) == Contains(lowerFilename, ToLower(pattern))

\* faulty variant of ExtHit: the pattern is searched for the extension
ExtHitContains(ext, pattern) == Contains(ToLower(pattern), ToLower(ext))

\* the test of the two extension loops (lines 111, 130)
ExtHit(ext, pattern) == EqualFold(ext, pattern)

\* the test of the two path loops (lines 117, 136)
PathHit(pattern, lowerPath) == matchPathPattern(pattern, lowerPath)

\* faulty variant of isSecretFile: the include lists are tried before the exclude lists
isSecretFileIncludeFirst(cfg, rel) ==
    LET filename == Base(rel)
        ext == Ext(rel)
        lowerFilename == ToLower(filename)
        lowerPath == ToLower(rel)
    IN
    IF \E i \in 1..Len(cfg.IncludeNames) : NameHit(lowerFilename, cfg.IncludeNames[i])
    THEN TRUE
    ELSE IF \E i \in 1..Len(cfg.IncludeExtensions) : ExtHit(ext, cfg.IncludeExtensions[i])
    THEN TRUE
    ELSE IF \E i \in 1..Len(cfg.IncludePaths) : PathHit(cfg.IncludePaths[i], lowerPath)
    THEN TRUE
    ELSE FALSE

isSecretFile(cfg, rel) ==
    LET filename == Base(rel)
        ext == Ext(rel)
        lowerFilename == ToLower(filename)
        lowerPath == ToLower(rel)
    IN
    IF \E i \in 1..Len(cfg.ExcludeNames) : NameHit(lowerFilename, cfg.ExcludeNames[i])
    THEN FALSE
    ELSE IF \E i \in 1..Len(cfg.ExcludeExtensions) : ExtHit(ext, cfg.ExcludeExtensions[i])
    THEN FALSE
    ELSE IF \E i \in 1..Len(cfg.ExcludePaths) : PathHit(cfg.ExcludePaths[i], lowerPath)
    THEN FALSE
    ELSE IF \E i \in 1..Len(cfg.IncludeNames) : NameHit(lowerFilename, cfg.IncludeNames[i])
    THEN TRUE
    ELSE IF \E i \in 1..Len(cfg.IncludeExtensions) : ExtHit(ext, cfg.IncludeExtensions[i])
    THEN TRUE
    ELSE IF \E i \in 1..Len(cfg.IncludePaths) : PathHit(cfg.IncludePaths[i], lowerPath)
    THEN TRUE
    ELSE FALSE

(***************************************************************************)
(* Inputs.                                                                 *)
(***************************************************************************)
\* all sequences over S of length 0..n
RECURSIVE SeqsUpTo(_, _)
SeqsUpTo(S, n) ==
    IF n = 0 THEN { <<>> }
    ELSE LET shorter == SeqsUpTo(S, n - 1)
         IN shorter \cup { Append(q, x) : q \in shorter, x \in S }

\* ---- matchPathPattern ---------------------------------------------------
MatchSegments == { Str(<<"a">>), Str(<<"b">>), Str(<<"d">>), Str(<<"d","x">>),
                   Str(<<"f">>) }

MatchPaths ==
    { JoinAll(Head(q), Tail(q)) : q \in SeqsUpTo(MatchSegments, MaxSegs) \ { <<>> } }

MatchPatterns == { Str(<<"d","/","*">>), Str(<<"d">>), Str(<<"*">>),
                   Str(<<"*","/","f">>), Str(<<"d","?","/","*">>),
                   Str(<<"b","/","d","/","f">>) }

\* ---- isSecretFile -------------------------------------------------------
ListNames == { "ExcludeNames", "ExcludeExtensions", "ExcludePaths",
               "IncludeNames", "IncludeExtensions", "IncludePaths" }

NamePatterns == { Str(<<"I","d","_","R","s","a">>), Str(<<"e","x","a","m","p","l","e">>) }

ExtPatterns == { Str(<<".","P","e","m">>), <<>> }

PathPatterns == { Str(<<".","k","a","m","a","l","/","*">>),
                  Str(<<".","K","a","m","a","l","/","*">>),
                  Str(<<"*",".","p","e","m">>) }

PatternsOf(list) ==
    IF list \in { "ExcludeNames", "IncludeNames" } THEN NamePatterns
    ELSE IF list \in { "ExcludeExtensions", "IncludeExtensions" } THEN ExtPatterns
    ELSE PathPatterns

EmptyRules == [ l \in ListNames |-> <<>> ]

\* the rule sets with at most n patterns in all
RECURSIVE RuleSets(_)
RuleSets(n) ==
    IF n = 0 THEN { EmptyRules }
    ELSE LET fewer == RuleSets(n - 1)
         IN fewer \cup
            UNION { UNION { { [ r EXCEPT ![l] = Append(@, p) ],
                              [ r EXCEPT ![l] = <<p>> \o @ ] } : p \in PatternsOf(l) }
                    : r \in fewer, l \in ListNames }

DirKamal == Str(<<".","k","a","m","a","l">>)
DirKamalUpper == Str(<<".","K","A","M","A","L">>)
DirApp == Str(<<"A","p","p">>)
DirSub == Str(<<"s","u","b">>)

\* the directories in front of the file name
ClassDirs == { <<>>, << DirKamal >>, << DirApp >>, << DirApp, DirKamalUpper >>,
               << DirApp, DirSub, DirKamal >> }

ClassFiles == { Str(<<"i","d","_","r","s","a">>), Str(<<"I","D","_","R","S","A">>),
                Str(<<"c","e","r","t",".","p","e","m">>),
                Str(<<"c","e","r","t",".","e","x","a","m","p","l","e",".","P","E","M">>),
                Str(<<"s","e","c","r","e","t","s">>),
                Str(<<".","e","n","v">>) }

ClassPaths ==
    { JoinAll(Head(q), Tail(q)) :
        q \in { Append(d, f) : d \in ClassDirs, f \in ClassFiles } }

(***************************************************************************)
(* Scanner.Scan (scanner.go 52-94) over filepath.Walk.                     *)
(***************************************************************************)
\* the package variable excludeDirs (lines 17-34)
excludeDirs ==
    << Str(<<".","g","i","t">>),
       Str(<<"n","o","d","e","_","m","o","d","u","l","e","s">>),
       Str(<<"v","e","n","d","o","r">>),
       Str(<<"t","m","p">>),
       Str(<<"c","a","c","h","e">>),
       Str(<<"l","o","g">>),
       Str(<<"l","o","g","s">>),
       Str(<<"c","o","v","e","r","a","g","e">>),
       Str(<<"d","i","s","t">>),
       Str(<<"b","u","i","l","d">>),
       Str(<<".","b","u","n","d","l","e">>),
       Str(<<".","g","r","a","d","l","e">>),
       Str(<<".","i","d","e","a">>),
       Str(<<".","v","s","c","o","d","e">>),
       Str(<<"_","_","p","y","c","a","c","h","e","_","_">>),
       Str(<<".","p","y","t","e","s","t","_","c","a","c","h","e">>) >>

\* faulty variant of IsExcludedDir: a name containing an entry is excluded too
IsExcludedDirSubstring(name) ==
    \E i \in 1..Len(excludeDirs) : Contains(name, excludeDirs[i])

\* the loop of lines 62-66 on info.Name()
IsExcludedDir(name) == \E i \in 1..Len(excludeDirs) : name = excludeDirs[i]

\* ---- the trees scanned --------------------------------------------------
NameTmp == Str(<<"t","m","p">>)
NameTmpx == Str(<<"t","m","p","x">>)
NameIdRsa == Str(<<"i","d","_","r","s","a">>)
NameApp == Str(<<"a","p","p",".","r","b">>)

\* the entries a directory can hold: name and kind
EntryChoices == { <<NameTmp, "dir">>, <<NameTmp, "file">>, <<NameTmpx, "dir">>,
                  <<NameIdRsa, "file">>, <<NameApp, "file">> }

RootOnly == ( <<>> :> "dir" )

\* the trees obtained by adding one entry to tree t
Grown(t) ==
    { t @@ ( Append(d, c[1]) :> c[2] ) :
        d \in { e \in DOMAIN t : t[e] = "dir" /\ Len(e) < MaxDepth },
        c \in EntryChoices }

\* the trees with at most n entries below the root, none deeper than MaxDepth
RECURSIVE Trees(_)
Trees(n) ==
    IF n = 0 THEN { RootOnly }
    ELSE LET smaller == Trees(n - 1)
         IN smaller \cup
            UNION { Grown(t) : t \in smaller }

RootDirs == { Str(<<"p","r","j">>), NameTmp }

ScanConfigs ==
    { [ EmptyRules EXCEPT !["IncludeNames"] = << NameIdRsa >> ],
      [ EmptyRules EXCEPT !["IncludeNames"] = << NameIdRsa, NameTmp >>,
                          !["ExcludePaths"] = << Str(<<"t","m","p","x","/","*">>) >> ] }

\* ---- filepath.Walk ------------------------------------------------------
\* the path Walk hands to the visitor for an entry
PathOf(root, entry) == JoinAll(root, entry)

\* info.Name() of an entry: os.Lstat names the root by the base of its path
NameOf(root, entry) ==
    IF entry = <<>> THEN Base(root) ELSE entry[Len(entry)]

\* the entries of directory d
ChildrenOf(tree, d) ==
    { e \in DOMAIN tree : Len(e) = Len(d) + 1 /\ SubSeq(e, 1, Len(d)) = d }

\* readDirNames: the entries of a directory sorted by name (sort.Strings)
RECURSIVE SortedEntries(_)
SortedEntries(S) ==
    IF S = {} THEN <<>>
    ELSE LET m == CHOOSE e \in S :
                    \A o \in S \ {e} : StrLess(e[Len(e)], o[Len(o)])
         IN <<m>> \o SortedEntries(S \ {m})

\* the calls on s.logger
LogProgressCall(path) == [ op |-> "LogProgress", arg |-> path ]
IncrementScannedCall == [ op |-> "IncrementScanned", arg |-> <<>> ]
LogSummaryCall(matches) == [ op |-> "LogSummary", arg |-> matches ]

ScanInit ==
    /\ rootDir \in RootDirs
    /\ fs \in Trees(MaxNodes)
    /\ config \in ScanConfigs
    /\ pc = "start"
    /\ pending = <<>>
    /\ files = <<>>
    /\ walkErr = "nil"
    /\ logged = <<>>
    /\ calls = <<>>
    /\ retFiles = <<>>
    /\ retErr = "nil"

\* Scan is entered and calls filepath.Walk(s.rootDir, ...) (lines 53-55)
ScanStart ==
    /\ pc = "start"
    /\ pc' = "walk"
    /\ pending' = << <<>> >>
    /\ UNCHANGED <<rootDir, fs, config, files, walkErr, logged, calls, retFiles, retErr>>

\* Lstat or the directory read of the next entry fails: the visitor is called
\* with err # nil and returns it (lines 56-58); Walk stops and returns it
VisitError ==
    /\ pc = "walk"
    /\ pending # <<>>
    /\ calls' = Append(calls, [ entry |-> Head(pending), err |-> TRUE ])
    /\ walkErr' = "err"
    /\ pending' = <<>>
    /\ UNCHANGED <<rootDir, fs, config, pc, files, logged, retFiles, retErr>>

\* faulty variant of VisitExcludedDir: the directory is logged before it is skipped
VisitExcludedDirLogged ==
    /\ pc = "walk"
    /\ pending # <<>>
    /\ fs[Head(pending)] = "dir"
    /\ IsExcludedDir(NameOf(rootDir, Head(pending)))
    /\ calls' = Append(calls, [ entry |-> Head(pending), err |-> FALSE ])
    /\ logged' = Append(logged, LogProgressCall(PathOf(rootDir, Head(pending))))
    /\ pending' = Tail(pending)
    /\ UNCHANGED <<rootDir, fs, config, pc, files, walkErr, retFiles, retErr>>

\* the visitor on a directory named in excludeDirs returns filepath.SkipDir
\* (lines 60-66): Walk does not read the directory's entries
VisitExcludedDir ==
    /\ pc = "walk"
    /\ pending # <<>>
    /\ fs[Head(pending)] = "dir"
    /\ IsExcludedDir(NameOf(rootDir, Head(pending)))
    /\ calls' = Append(calls, [ entry |-> Head(pending), err |-> FALSE ])
    /\ pending' = Tail(pending)
    /\ UNCHANGED <<rootDir, fs, config, pc, files, walkErr, logged, retFiles, retErr>>

\* the visitor on any other directory logs it and returns nil (lines 60-68):
\* Walk goes on with the directory's entries in sorted order
VisitDir ==
    /\ pc = "walk"
    /\ pending # <<>>
    /\ fs[Head(pending)] = "dir"
    /\ ~IsExcludedDir(NameOf(rootDir, Head(pending)))
    /\ calls' = Append(calls, [ entry |-> Head(pending), err |-> FALSE ])
    /\ logged' = Append(logged, LogProgressCall(PathOf(rootDir, Head(pending))))
    /\ pending' = SortedEntries(ChildrenOf(fs, Head(pending))) \o Tail(pending)
    /\ UNCHANGED <<rootDir, fs, config, pc, files, walkErr, retFiles, retErr>>

\* faulty variant of VisitFile: the path is appended as Walk gave it, not relative
VisitFileUnrelative ==
    /\ pc = "walk"
    /\ pending # <<>>
    /\ fs[Head(pending)] = "file"
    /\ LET path == PathOf(rootDir, Head(pending))
           rel == Rel(rootDir, path)
       IN /\ logged' = logged \o << IncrementScannedCall, LogProgressCall(path) >>
          /\ files' = IF isSecretFile(config, rel) THEN Append(files, path) ELSE files
    /\ calls' = Append(calls, [ entry |-> Head(pending), err |-> FALSE ])
    /\ pending' = Tail(pending)
    /\ UNCHANGED <<rootDir, fs, config, pc, walkErr, retFiles, retErr>>

\* the visitor on a file (lines 71-85)
VisitFile ==
    /\ pc = "walk"
    /\ pending # <<>>
    /\ fs[Head(pending)] = "file"
    /\ LET path == PathOf(rootDir, Head(pending))
           rel == Rel(rootDir, path)
       IN /\ logged' = logged \o << IncrementScannedCall, LogProgressCall(path) >>
          /\ files' = IF isSecretFile(config, rel) THEN Append(files, rel) ELSE files
    /\ calls' = Append(calls, [ entry |-> Head(pending), err |-> FALSE ])
    /\ pending' = Tail(pending)
    /\ UNCHANGED <<rootDir, fs, config, pc, walkErr, retFiles, retErr>>

\* faulty variant of ScanReturn: the matches found so far are returned with the error
ScanReturnPartial ==
    /\ pc = "walk"
    /\ pending = <<>>
    /\ pc' = "done"
    /\ IF walkErr # "nil"
       THEN /\ retFiles' = files
            /\ retErr' = walkErr
            /\ UNCHANGED logged
       ELSE /\ logged' = Append(logged, LogSummaryCall(files))
            /\ retFiles' = files
            /\ retErr' = "nil"
    /\ UNCHANGED <<rootDir, fs, config, pending, files, walkErr, calls>>

\* faulty variant of ScanReturn: the summary is logged before the error is looked at
ScanReturnSummaryFirst ==
    /\ pc = "walk"
    /\ pending = <<>>
    /\ pc' = "done"
    /\ logged' = Append(logged, LogSummaryCall(files))
    /\ IF walkErr # "nil"
       THEN /\ retFiles' = <<>>
            /\ retErr' = walkErr
       ELSE /\ retFiles' = files
            /\ retErr' = "nil"
    /\ UNCHANGED <<rootDir, fs, config, pending, files, walkErr, calls>>

\* Walk has returned (lines 88-93)
ScanReturn ==
    /\ pc = "walk"
    /\ pending = <<>>
    /\ pc' = "done"
    /\ IF walkErr # "nil"
       THEN /\ retFiles' = <<>>
            /\ retErr' = walkErr
            /\ UNCHANGED logged
       ELSE /\ logged' = Append(logged, LogSummaryCall(files))
            /\ retFiles' = files
            /\ retErr' = "nil"
    /\ UNCHANGED <<rootDir, fs, config, pending, files, walkErr, calls>>

ClsIdle == relPath = <<>> /\ secret = FALSE /\ clsPc = "idle"
MpIdle ==
    /\ mpPattern = <<>>
    /\ mpPath0 = <<>>
    /\ mpPath = <<>>
    /\ mpIter = 0
    /\ mpResult = FALSE
    /\ mpPc = "idle"

Init == ScanInit /\ ClsIdle /\ MpIdle

Next ==
    \/ ScanStart /\ UNCHANGED <<clsVars, mpVars>>
    \/ VisitError /\ UNCHANGED <<clsVars, mpVars>>
    \/ VisitExcludedDir /\ UNCHANGED <<clsVars, mpVars>>
    \/ VisitDir /\ UNCHANGED <<clsVars, mpVars>>
    \/ VisitFile /\ UNCHANGED <<clsVars, mpVars>>
    \/ ScanReturn /\ UNCHANGED <<clsVars, mpVars>>

Spec == Init /\ [][Next]_vars

(***************************************************************************)
(* isSecretFile applied to one path under one rule set.                    *)
(***************************************************************************)
ScanIdle ==
    /\ rootDir = <<>>
    /\ fs = RootOnly
    /\ pc = "idle"
    /\ pending = <<>>
    /\ files = <<>>
    /\ walkErr = "nil"
    /\ logged = <<>>
    /\ calls = <<>>
    /\ retFiles = <<>>
    /\ retErr = "nil"

ClassifyInit ==
    /\ config \in RuleSets(MaxRules)
    /\ relPath \in ClassPaths
    /\ secret = FALSE
    /\ clsPc = "call"
    /\ ScanIdle
    /\ MpIdle

\* s.isSecretFile(relPath) returns
Classify ==
    /\ clsPc = "call"
    /\ secret' = isSecretFile(config, relPath)
    /\ clsPc' = "done"
    /\ UNCHANGED <<relPath, scanVars, mpVars>>

ClassifyNext == Classify

SpecClassify == ClassifyInit /\ [][ClassifyNext]_vars

(***************************************************************************)
(* matchPathPattern, one iteration of its loop per step.                   *)
(***************************************************************************)
MatchInit ==
    /\ mpPattern \in MatchPatterns
    /\ mpPath0 \in MatchPaths
    /\ mpPath = mpPath0
    /\ mpIter = 0
    /\ mpResult = FALSE
    /\ mpPc = "loop"
    /\ config = EmptyRules
    /\ ScanIdle
    /\ ClsIdle

\* filepath.Match succeeds on the current sub-path (lines 148-150)
MatchFound ==
    /\ mpPc = "loop"
    /\ Match(mpPattern, mpPath)
    /\ mpIter' = mpIter + 1
    /\ mpResult' = TRUE
    /\ mpPc' = "done"
    /\ UNCHANGED <<mpPattern, mpPath0, mpPath, scanVars, clsVars>>

\* it fails and no separator is left (lines 152-155)
MatchExhausted ==
    /\ mpPc = "loop"
    /\ ~Match(mpPattern, mpPath)
    /\ IndexByte(mpPath, Separator) < 0
    /\ mpIter' = mpIter + 1
    /\ mpResult' = FALSE
    /\ mpPc' = "done"
    /\ UNCHANGED <<mpPattern, mpPath0, mpPath, scanVars, clsVars>>

\* it fails and the leading segment is cut off (lines 152, 156)
MatchRetry ==
    /\ mpPc = "loop"
    /\ ~Match(mpPattern, mpPath)
    /\ IndexByte(mpPath, Separator) >= 0
    /\ mpIter' = mpIter + 1
    /\ mpPath' = NextSubPath(mpPath)
    /\ UNCHANGED <<mpPattern, mpPath0, mpResult, mpPc, scanVars, clsVars>>

MatchNext == MatchFound \/ MatchExhausted \/ MatchRetry

SpecMatch == MatchInit /\ [][MatchNext]_vars

(***************************************************************************)
(* Properties of matchPathPattern (checked under SpecMatch).               *)
(***************************************************************************)
\* number of separators of a path
CountSep(path) == Cardinality({ i \in 1..Len(path) : path[i] = Separator })

\* the path and what is left of it after removing 1, 2, ... leading segments
SubPaths(path) ==
    { SubSeq(path, k + 1, Len(path)) :
        k \in {0} \cup { i \in 1..Len(path) : path[i] = Separator } }

PatDStar == Str(<<"d","/","*">>)

\* C4: matchPathPattern returns true exactly when the glob matches the whole
\* path or one of the sub-paths left after removing leading segments; '*' does
\* not match a separator, so a pattern without separator can only match the
\* last segment, and "d/*" matches d/f, a/d/f, a/b/d/f but neither d nor
\* a/dx/f; the loop makes at most one attempt per sub-path, the last one on
\* the remainder without separator, and then returns.
C4_SubPathGlob ==
    /\ mpPc = "done" =>
        /\ mpResult = (\E sub \in SubPaths(mpPath0) : Match(mpPattern, sub))
        /\ mpResult = matchPathPattern(mpPattern, mpPath0)
        /\ CountSep(mpPattern) = 0 => (mpResult = Match(mpPattern, Base(mpPath0)))
        /\ ~mpResult => mpIter = CountSep(mpPath0) + 1 /\ CountSep(mpPath) = 0
        /\ mpPattern = PatDStar =>
            /\ mpPath0 \in { Str(<<"d","/","f">>), Str(<<"a","/","d","/","f">>),
                             Str(<<"a","/","b","/","d","/","f">>) } => mpResult
            /\ mpPath0 \in { Str(<<"d">>), Str(<<"a","/","d","x","/","f">>) } => ~mpResult
    /\ mpPc = "loop" =>
        /\ mpPath \in SubPaths(mpPath0)
        /\ mpIter + CountSep(mpPath) = CountSep(mpPath0)
        /\ ENABLED MatchNext
    /\ mpIter <= CountSep(mpPath0) + 1

\* "d/*" is found on the third attempt in a/b/d/f
C4_Witness ==
    /\ mpPc = "done"
    /\ mpPattern = PatDStar
    /\ mpPath0 = Str(<<"a","/","b","/","d","/","f">>)
    /\ mpResult
    /\ mpIter = 3

(***************************************************************************)
(* Properties of isSecretFile (checked under SpecClassify).                *)
(***************************************************************************)
\* some pattern of the exclude family matches the path
ExcludeFamilyMatches(cfg, rel) ==
    \/ \E i \in 1..Len(cfg.ExcludeNames) :
            Contains(ToLower(Base(rel)), ToLower(cfg.ExcludeNames[i]))
    \/ \E i \in 1..Len(cfg.ExcludeExtensions) :
            EqualFold(Ext(rel), cfg.ExcludeExtensions[i])
    \/ \E i \in 1..Len(cfg.ExcludePaths) :
            \E sub \in SubPaths(ToLower(rel)) : Match(cfg.ExcludePaths[i], sub)

\* some pattern of the include family matches the path
IncludeFamilyMatches(cfg, rel) ==
    \/ \E i \in 1..Len(cfg.IncludeNames) :
            Contains(ToLower(Base(rel)), ToLower(cfg.IncludeNames[i]))
    \/ \E i \in 1..Len(cfg.IncludeExtensions) :
            EqualFold(Ext(rel), cfg.IncludeExtensions[i])
    \/ \E i \in 1..Len(cfg.IncludePaths) :
            \E sub \in SubPaths(ToLower(rel)) : Match(cfg.IncludePaths[i], sub)

\* C1: a path matched by a pattern of the exclude family (name by substring,
\* extension by equality, path by glob) is NOT-SECRET, whatever include
\* patterns it matches and wherever the patterns stand in their lists.
C1_ExcludeWins ==
    clsPc = "done" /\ ExcludeFamilyMatches(config, relPath) => ~secret

\* a path matched by the second pattern of an exclude list and by an include
\* pattern
C1_Witness ==
    /\ clsPc = "done"
    /\ IncludeFamilyMatches(config, relPath)
    /\ \E l \in { "ExcludeNames", "ExcludeExtensions", "ExcludePaths" } :
          /\ Len(config[l]) = 2
          /\ ~ExcludeFamilyMatches([ config EXCEPT ![l] = << @[1] >> ], relPath)
          /\ ExcludeFamilyMatches([ config EXCEPT ![l] = << @[2] >> ], relPath)
    /\ ~secret

\* a rule set with every pattern in lower case
LowerRules(cfg) == [ l \in ListNames |-> [ i \in 1..Len(cfg[l]) |-> ToLower(cfg[l][i]) ] ]

\* C2: the classification does not depend on the letter case of the path nor
\* of any pattern of the six lists: it is that of the lower-cased path under
\* the lower-cased rule set.
C2_CaseInsensitive ==
    clsPc = "done" => secret = isSecretFile(LowerRules(config), ToLower(relPath))

\* a rule set without its two extension lists
WithoutExtensions(cfg) ==
    [ cfg EXCEPT !["ExcludeExtensions"] = <<>>, !["IncludeExtensions"] = <<>> ]

\* an extension list holds the empty pattern
HasEmptyExtPattern(cfg) ==
    \/ \E i \in 1..Len(cfg.ExcludeExtensions) : cfg.ExcludeExtensions[i] = <<>>
    \/ \E i \in 1..Len(cfg.IncludeExtensions) : cfg.IncludeExtensions[i] = <<>>

\* C9 as stated: a file without extension is classified as with both extension
\* lists emptied, for any contents of those lists.
C9_NoExtAnyLists ==
    clsPc = "done" /\ Ext(relPath) = <<>> =>
        secret = isSecretFile(WithoutExtensions(config), relPath)

\* C9 amended: a file without extension is classified as with both extension
\* lists emptied, for any contents of those lists without the empty pattern;
\* the empty pattern matches exactly the files without extension.
C9_NoExtNonEmptyPatterns ==
    clsPc = "done" /\ Ext(relPath) = <<>> =>
        /\ ~HasEmptyExtPattern(config) =>
              secret = isSecretFile(WithoutExtensions(config), relPath)
        /\ \A p \in ExtPatterns : ExtHit(Ext(relPath), p) = (p = <<>>)

\* a file without extension that an include name makes SECRET while both
\* extension lists hold a (non-empty) pattern
C9_Witness ==
    /\ clsPc = "done"
    /\ Ext(relPath) = <<>>
    /\ config.ExcludeExtensions # <<>>
    /\ config.IncludeExtensions # <<>>
    /\ ~HasEmptyExtPattern(config)
    /\ secret

(***************************************************************************)
(* Properties of Scan (checked under Spec).                                *)
(***************************************************************************)
\* the names of excludeDirs
ExclusionSet == { excludeDirs[i] : i \in 1..Len(excludeDirs) }

\* the root-relative path of an entry below the root
RelName(e) == JoinAll(Head(e), Tail(e))

\* entry e lies below directory d
Below(e, d) == Len(e) > Len(d) /\ SubSeq(e, 1, Len(d)) = d

\* a directory below the root whose base name is in the exclusion set
ExcludedDescendant(d) ==
    d # <<>> /\ fs[d] = "dir" /\ d[Len(d)] \in ExclusionSet

CalledEntries == { calls[i].entry : i \in 1..Len(calls) }
LoggedPaths == { logged[i].arg : i \in { j \in 1..Len(logged) : logged[j].op = "LogProgress" } }
ScannedCount == Cardinality({ i \in 1..Len(logged) : logged[i].op = "IncrementScanned" })
SummaryCalls == { i \in 1..Len(logged) : logged[i].op = "LogSummary" }
FilesSet == { files[i] : i \in 1..Len(files) }

\* C3: a directory below the root is pruned exactly when its base name equals
\* an entry of the exclusion set: nothing below an excluded directory is ever
\* visited, logged, counted or returned, and every entry of a visited
\* directory with any other name (such as tmpx for tmp) is visited.
C3_ExactNamePruning ==
    /\ \A d \in DOMAIN fs : ExcludedDescendant(d) =>
          \A e \in DOMAIN fs : Below(e, d) =>
              /\ e \notin CalledEntries
              /\ PathOf(rootDir, e) \notin LoggedPaths
              /\ RelName(e) \notin FilesSet
    /\ ScannedCount =
          Cardinality({ i \in 1..Len(calls) :
                          ~calls[i].err /\ fs[calls[i].entry] = "file" })
    /\ pc = "done" /\ retErr = "nil" =>
          \A d \in CalledEntries :
              d # <<>> /\ fs[d] = "dir" /\ d[Len(d)] \notin ExclusionSet =>
                  ChildrenOf(fs, d) \subseteq CalledEntries

\* tmpx/tmp/id_rsa is pruned and tmpx/id_rsa is returned
C3_Witness ==
    /\ pc = "done"
    /\ retErr = "nil"
    /\ <<NameTmpx, NameTmp, NameIdRsa>> \in DOMAIN fs
    /\ <<NameTmpx, NameIdRsa>> \in DOMAIN fs
    /\ retFiles = << Join(NameTmpx, NameIdRsa) >>

\* C5: a traversal error ends the walk at the entry it is reported for: it is
\* the last invocation of the visitor, the files matched were all visited
\* before it, and Scan returns the error with no matches and logs no summary.
C5_ErrorAborts ==
    /\ walkErr = "err" =>
          /\ pending = <<>>
          /\ calls # <<>>
          /\ calls[Len(calls)].err
          /\ \A i \in 1..(Len(calls) - 1) : ~calls[i].err
    /\ \A i \in 1..Len(files) :
          \E j \in 1..Len(calls) :
              ~calls[j].err /\ calls[j].entry # <<>> /\ RelName(calls[j].entry) = files[i]
    /\ (\E i \in 1..Len(calls) : calls[i].err) => walkErr = "err"
    /\ pc = "done" /\ walkErr = "err" =>
          /\ retErr = "err"
          /\ retFiles = <<>>
          /\ SummaryCalls = {}
    /\ retErr # "nil" => pc = "done" /\ walkErr = "err"

\* an error after a file was matched, with entries left unvisited
C5_Witness ==
    /\ pc = "done"
    /\ retErr = "err"
    /\ files # <<>>
    /\ retFiles = <<>>
    /\ DOMAIN fs \ CalledEntries # {}

\* the i-th entry of directory d in the order of the names
ChildAt(d, i) ==
    CHOOSE e \in ChildrenOf(fs, d) :
        Cardinality({ o \in ChildrenOf(fs, d) : StrLess(o[Len(o)], e[Len(e)]) }) = i - 1

\* the entries at and below e, depth first, a directory before its entries
RECURSIVE PreOrder(_)
RECURSIVE PreOrderFrom(_, _)
PreOrder(e) ==
    IF fs[e] = "file" THEN <<e>> ELSE <<e>> \o PreOrderFrom(e, 1)
PreOrderFrom(d, i) ==
    IF i > Cardinality(ChildrenOf(fs, d)) THEN <<>>
    ELSE PreOrder(ChildAt(d, i)) \o PreOrderFrom(d, i + 1)

\* entry e lies below a directory Scan prunes
InPrunedSubtree(e) ==
    \E k \in 0..(Len(e) - 1) :
        NameOf(rootDir, SubSeq(e, 1, k)) \in ExclusionSet

\* a file outside every pruned subtree that isSecretFile classifies SECRET
IsMatch(e) ==
    /\ fs[e] = "file"
    /\ ~InPrunedSubtree(e)
    /\ isSecretFile(config, RelName(e))

ExpectedMatches ==
    LET hits == SelectSeq(PreOrder(<<>>), IsMatch)
    IN [ i \in 1..Len(hits) |-> RelName(hits[i]) ]

\* C6: a successful Scan returns the root-relative paths of the files outside
\* every pruned subtree that isSecretFile classifies SECRET, each once, in
\* depth-first pre-order with the entries of a directory in name order.
C6_ResultIsPreOrderMatches ==
    pc = "done" /\ retErr = "nil" => retFiles = ExpectedMatches

\* two matches returned in traversal order beside a file that is no match
C6_Witness ==
    /\ pc = "done"
    /\ retErr = "nil"
    /\ Len(retFiles) = 2
    /\ \E e \in DOMAIN fs : fs[e] = "file" /\ RelName(e) \notin { retFiles[1], retFiles[2] }
    /\ \E e \in DOMAIN fs : e # <<>> /\ fs[e] = "dir" /\ Len(PreOrder(e)) > 1

\* C7: LogSummary is called exactly once in a successful Scan, as the last
\* call on the logger when Scan returns and with the sequence Scan returns;
\* it is never called in a failed Scan nor before the walk has ended.
C7_SummaryOnceAtEnd ==
    /\ pc # "done" => SummaryCalls = {}
    /\ pc = "done" /\ retErr = "nil" =>
          /\ SummaryCalls = { Len(logged) }
          /\ logged[Len(logged)].arg = retFiles
          /\ retFiles = files
    /\ pc = "done" /\ retErr # "nil" => SummaryCalls = {}

\* a successful Scan with matches and earlier calls on the logger
C7_Witness ==
    /\ pc = "done"
    /\ retErr = "nil"
    /\ retFiles # <<>>
    /\ Len(logged) > 3

\* C8: the root is never pruned: in a successful Scan of a root that holds
\* entries, the root is logged and each of its entries is visited, whatever
\* the base name of the root.
C8_RootNeverPruned ==
    pc = "done" /\ retErr = "nil" /\ ChildrenOf(fs, <<>>) # {} =>
        /\ PathOf(rootDir, <<>>) \in LoggedPaths
        /\ ChildrenOf(fs, <<>>) \subseteq CalledEntries

\* C10 as stated: every entry the visitor ran for without traversal error has
\* been logged by LogProgress, the directories named in the exclusion set too
\* (stated for the scans of a root that is not itself named in the exclusion
\* set, so that what refutes it is a directory met below the root).
C10_EveryVisitLogged ==
    Base(rootDir) \notin ExclusionSet =>
        \A i \in 1..Len(calls) :
            ~calls[i].err => PathOf(rootDir, calls[i].entry) \in LoggedPaths

\* the visitor ran without error on an entry that is no excluded directory
IsReported(c) ==
    /\ ~c.err
    /\ ~(fs[c.entry] = "dir" /\ NameOf(rootDir, c.entry) \in ExclusionSet)

\* C10 amended: LogProgress is called, in visiting order, for exactly the
\* files and the directories not named in the exclusion set that the visitor
\* ran for without traversal error; a directory named in the exclusion set is
\* visited but not logged.
C10_VisitLoggedUnlessExcluded ==
    LET reported == SelectSeq(calls, IsReported)
        progress == SelectSeq(logged, LAMBDA l : l.op = "LogProgress")
    IN /\ Len(progress) = Len(reported)
       /\ \A i \in 1..Len(reported) :
             progress[i].arg = PathOf(rootDir, reported[i].entry)

\* an excluded directory below the root was visited and not logged, after a
\* directory and a file that were
C10_Witness ==
    /\ pc = "done"
    /\ \E i \in 1..Len(calls) :
          /\ ExcludedDescendant(calls[i].entry)
          /\ ~calls[i].err
          /\ PathOf(rootDir, calls[i].entry) \notin LoggedPaths
    /\ \E i \in 1..Len(calls) :
          fs[calls[i].entry] = "file" /\ PathOf(rootDir, calls[i].entry) \in LoggedPaths
    /\ PathOf(rootDir, <<>>) \in LoggedPaths

====
